---- MODULE Spec2Model ----
(***************************************************************************)
(* A model of vrc_oscquery: the OSCQuery namespace tree (src/src/node.rs), *)
(* the mDNS discovery client (src/src/client.rs) and the server assembly   *)
(* with its HTTP responder (src/src/server.rs).                            *)
(*                                                                         *)
(* Strings whose characters matter (OSC paths, query strings, mDNS full    *)
(* names) are sequences of one-character strings.                          *)
(***************************************************************************)
EXTENDS Integers, Sequences, FiniteSets, TLC

(***************************************************************************)
(* Bounds of the model.                                                    *)
(***************************************************************************)
\* largest timeout a caller of discover_vrchat_oscquery passes, in ticks
MaxTimeout == 2
\* ticks of the clock that pass outside the waits (scheduling overhead)
MaxOverhead == 2
\* events the mDNS daemon sends on the browse channel
MaxEvents == 2
\* every path string up to this length is passed to ensure_path and add_method
MaxPathLen == 3
\* number of ensure_path and add_method calls applied to one tree
MaxCalls == 2
\* connections the accept loop takes
MaxConns == 2

(***************************************************************************)
(* Program constants.                                                      *)
(***************************************************************************)
\* client.rs:35 and :65, server.rs:142
OSCJSON_TCP == "_oscjson._tcp.local."
\* server.rs:164
OSC_UDP == "_osc._udp.local."
\* client.rs:66
VRCHAT_PREFIX == <<"V","R","C","h","a","t","-","C","l","i","e","n","t","-">>
\* client.rs:73  Ipv4Addr::LOCALHOST
LOCALHOST == "127.0.0.1"
\* server.rs:182  sleep(Duration::from_secs(1)), in ticks of one second
GraceDelay == 1
\* server.rs:184  discover_vrchat_oscquery(Duration::from_secs(5))
SmokeTimeout == 5
\* server.rs:200, :210  StatusCode::OK
StatusOK == 200
\* examples/test.rs:14  the application name given to the builder
AppName == "TestApp"
\* server.rs:54  the OSC port given to the builder
OscPort == 9000

VARIABLES
    \* ---- discover_vrchat_oscquery (client.rs) ----
    dpc,          \* position of the call
    daemon,       \* the ServiceDaemon created at client.rs:34
    browsing,     \* the browse subscription of client.rs:35 is open
    now,          \* Instant::now(), in ticks
    overhead,     \* ticks spent outside the waits
    timeout,      \* the caller's timeout
    deadline,     \* client.rs:37
    remaining,    \* client.rs:40
    waited,       \* ticks spent in the current wait (client.rs:49)
    totalWaited,  \* ticks spent in all finished waits
    queue,        \* events sent by the daemon and not yet received
    closed,       \* every sender of the browse channel is gone
    delivered,    \* number of events sent so far
    event,        \* the event bound at client.rs:51
    recvLog,      \* events received so far, in order
    result,       \* what the call returned
    out,          \* the DiscoveredOscQueryService returned
    enteredLoop,  \* the call reached the loop of client.rs:39
    \* ---- the namespace tree (node.rs) ----
    tree,         \* the nodes reachable from the root, by their chain of keys
    prevTree,     \* the tree before the last call of EnsurePathCall, AddMethodCall
    lastCall,     \* that call and the node it designated
    ncalls,       \* number of those calls so far
    \* ---- OscQueryServerBuilder::build_and_run (server.rs) ----
    spc,          \* position of the builder and of build_and_run
    listener,     \* the TcpListener of server.rs:92
    acceptLoop,   \* the task spawned at server.rs:115
    sdaemon,      \* the ServiceDaemon created at server.rs:139
    registered,   \* service types registered with that daemon
    sresult,      \* what build_and_run returned
    handle,       \* the RunningServer returned
    failed,       \* the step of build_and_run that failed
    steps,        \* the steps of build_and_run executed so far, in order
    sleepUntil,   \* end of the sleep of server.rs:182
    shared,       \* the SharedState of server.rs:110
    \* ---- the connections served (server.rs:126-135, :190-214) ----
    conns,        \* the task of each connection
    readers,      \* number of read guards held on the tree lock
    writers       \* number of write guards held on the tree lock

dvars == <<dpc, daemon, browsing, now, overhead, timeout, deadline, remaining,
           waited, totalWaited, queue, closed, delivered, event, recvLog,
           result, out, enteredLoop>>

tvars == <<tree, prevTree, lastCall, ncalls>>

svars == <<spc, listener, acceptLoop, sdaemon, registered, sresult, handle,
           failed, steps, sleepUntil, shared>>

hvars == <<conns, readers, writers>>

vars == <<dvars, tvars, svars, hvars>>

(***************************************************************************)
(* client.rs: the events of the browse channel.                            *)
(***************************************************************************)
NoEvent == [kind |-> "none", ty_domain |-> "", fullname |-> <<>>,
            host |-> "", port |-> 0, addrs |-> {}]

Resolved(ty, name, addrs) ==
    [kind |-> "ServiceResolved", ty_domain |-> ty, fullname |-> name,
     host |-> "peer.local.", port |-> 9001, addrs |-> addrs]

Other(kind) ==
    [kind |-> kind, ty_domain |-> OSCJSON_TCP, fullname |-> <<>>,
     host |-> "", port |-> 0, addrs |-> {}]

\* "VRChat-Client-1"
NameVRChat == VRCHAT_PREFIX \o <<"1">>
\* "vrchat-client-1"
NameLower == <<"v","r","c","h","a","t","-","c","l","i","e","n","t","-","1">>
\* "VRChat-Client"
NameShort == <<"V","R","C","h","a","t","-","C","l","i","e","n","t">>

Events ==
    { Resolved(OSCJSON_TCP, NameVRChat, {}),
      Resolved(OSCJSON_TCP, NameVRChat, {"10.0.0.2", "10.0.0.3"}),
      Resolved(OSCJSON_TCP, NameLower, {"10.0.0.2"}),
      Resolved(OSCJSON_TCP, NameShort, {"10.0.0.2"}),
      Resolved(OSC_UDP, NameVRChat, {"10.0.0.2"}),
      Other("ServiceFound") }

\* str::starts_with
StartsWith(s, p) == Len(s) >= Len(p) /\ SubSeq(s, 1, Len(p)) = p

\* the test of the service type without the test of the name
MatchesTypeOnly(ev) ==
    /\ ev.kind = "ServiceResolved"
    /\ ev.ty_domain = OSCJSON_TCP

\* client.rs:64-66
Matches(ev) ==
    /\ ev.kind = "ServiceResolved"
    /\ ev.ty_domain = OSCJSON_TCP
    /\ StartsWith(ev.fullname, VRCHAT_PREFIX)

\* the loopback address whatever the event holds
FirstV4AlwaysLoopback(addrs) == {LOCALHOST}

\* client.rs:68-73: the first element of the iteration of a hash set, or
\* the loopback address
FirstV4(addrs) == IF addrs = {} THEN {LOCALHOST} ELSE addrs

NoService == [instance_name |-> <<>>, host_name |-> "", addr_v4 |-> "", port |-> 0]

\* client.rs:75-80
Discovered(info, addr) ==
    [instance_name |-> info.fullname, host_name |-> info.host,
     addr_v4 |-> addr, port |-> info.port]

(***************************************************************************)
(* client.rs:31-91  discover_vrchat_oscquery                               *)
(***************************************************************************)
\* mdns.shutdown().ok(): the daemon exits and the subscription ends
ShutDown ==
    /\ daemon' = "shutdown"
    /\ browsing' = FALSE

Return(r, o) ==
    /\ dpc' = "done"
    /\ result' = r
    /\ out' = o

\* client.rs:34  ServiceDaemon::new()?
DaemonNew ==
    /\ dpc = "new"
    /\ \E ok \in BOOLEAN :
         IF ok
         THEN /\ daemon' = "running"
              /\ dpc' = "browse"
              /\ UNCHANGED <<result, out>>
         ELSE /\ Return("Mdns", NoService)
              /\ UNCHANGED daemon
    /\ UNCHANGED <<browsing, now, overhead, timeout, deadline, remaining, waited,
                   totalWaited, queue, closed, delivered, event, recvLog,
                   enteredLoop>>
    /\ UNCHANGED <<tvars, svars, hvars>>

\* client.rs:35  mdns.browse("_oscjson._tcp.local.")?
Browse ==
    /\ dpc = "browse"
    /\ \E ok \in BOOLEAN :
         IF ok
         THEN /\ browsing' = TRUE
              /\ dpc' = "deadline"
              /\ UNCHANGED <<result, out>>
         ELSE /\ Return("Mdns", NoService)
              /\ UNCHANGED browsing
    /\ UNCHANGED <<daemon, now, overhead, timeout, deadline, remaining, waited,
                   totalWaited, queue, closed, delivered, event, recvLog,
                   enteredLoop>>
    /\ UNCHANGED <<tvars, svars, hvars>>

\* client.rs:37  let deadline = Instant::now() + timeout
SetDeadline ==
    /\ dpc = "deadline"
    /\ deadline' = now + timeout
    /\ dpc' = "check"
    /\ enteredLoop' = TRUE
    /\ UNCHANGED <<daemon, browsing, now, overhead, timeout, remaining, waited,
                   totalWaited, queue, closed, delivered, event, recvLog,
                   result, out>>
    /\ UNCHANGED <<tvars, svars, hvars>>

\* client.rs:40-46  the remaining time, and the exit when there is none
CheckDeadline ==
    /\ dpc = "check"
    /\ remaining' = deadline - now
    /\ IF deadline - now > 0
       THEN /\ dpc' = "wait"
            /\ waited' = 0
            /\ UNCHANGED <<daemon, browsing, result, out>>
       ELSE /\ ShutDown
            /\ Return("DiscoveryTimeout", NoService)
            /\ UNCHANGED waited
    /\ UNCHANGED <<now, overhead, timeout, deadline, totalWaited, queue, closed,
                   delivered, event, recvLog, enteredLoop>>
    /\ UNCHANGED <<tvars, svars, hvars>>

\* the wait bounded by the whole timeout instead of the remaining time
WaitBoundWholeTimeout == timeout

\* client.rs:49  the bound tokio::time::timeout puts on the wait
WaitBound == remaining

\* client.rs:49, :52  the wait ends with an event: Ok(Ok(ev))
RecvEvent ==
    /\ dpc = "wait"
    /\ queue # <<>>
    /\ event' = Head(queue)
    /\ queue' = Tail(queue)
    /\ recvLog' = Append(recvLog, Head(queue))
    /\ totalWaited' = totalWaited + waited
    /\ waited' = 0
    /\ dpc' = "match"
    /\ UNCHANGED <<daemon, browsing, now, overhead, timeout, deadline, remaining,
                   closed, delivered, result, out, enteredLoop>>
    /\ UNCHANGED <<tvars, svars, hvars>>

\* the channel-closed exit without its mdns.shutdown()
RecvClosedNoShutdown ==
    /\ dpc = "wait"
    /\ queue = <<>>
    /\ closed
    /\ Return("DiscoveryChannelClosed", NoService)
    /\ UNCHANGED <<daemon, browsing, now, overhead, timeout, deadline, remaining,
                   waited, totalWaited, queue, closed, delivered, event,
                   recvLog, enteredLoop>>
    /\ UNCHANGED <<tvars, svars, hvars>>

\* client.rs:53-56  the channel is closed and empty: Ok(Err(_))
RecvClosed ==
    /\ dpc = "wait"
    /\ queue = <<>>
    /\ closed
    /\ ShutDown
    /\ Return("DiscoveryChannelClosed", NoService)
    /\ UNCHANGED <<now, overhead, timeout, deadline, remaining, waited,
                   totalWaited, queue, closed, delivered, event, recvLog,
                   enteredLoop>>
    /\ UNCHANGED <<tvars, svars, hvars>>

\* the elapsed wait reported as a closed channel
WaitElapsedAsClosed ==
    /\ dpc = "wait"
    /\ queue = <<>>
    /\ ~closed
    /\ waited >= WaitBound
    /\ ShutDown
    /\ Return("DiscoveryChannelClosed", NoService)
    /\ UNCHANGED <<now, overhead, timeout, deadline, remaining, waited,
                   totalWaited, queue, closed, delivered, event, recvLog,
                   enteredLoop>>
    /\ UNCHANGED <<tvars, svars, hvars>>

\* client.rs:57-60  the timer of the wait fired and the channel, polled
\* first, had nothing: Err(_)
WaitElapsed ==
    /\ dpc = "wait"
    /\ queue = <<>>
    /\ ~closed
    /\ waited >= WaitBound
    /\ ShutDown
    /\ Return("DiscoveryTimeout", NoService)
    /\ UNCHANGED <<now, overhead, timeout, deadline, remaining, waited,
                   totalWaited, queue, closed, delivered, event, recvLog,
                   enteredLoop>>
    /\ UNCHANGED <<tvars, svars, hvars>>

\* client.rs:63-84  a matching resolved event ends the call
MatchFound ==
    /\ dpc = "match"
    /\ Matches(event)
    /\ \E addr \in FirstV4(event.addrs) :
         Return("Ok", Discovered(event, addr))
    /\ ShutDown
    /\ UNCHANGED <<now, overhead, timeout, deadline, remaining, waited,
                   totalWaited, queue, closed, delivered, event, recvLog,
                   enteredLoop>>
    /\ UNCHANGED <<tvars, svars, hvars>>

\* an ignored event that moves the deadline to a whole timeout from now
IgnoreMovesDeadline ==
    /\ dpc = "match"
    /\ ~Matches(event)
    /\ dpc' = "check"
    /\ deadline' = now + timeout
    /\ UNCHANGED <<daemon, browsing, now, overhead, timeout, remaining,
                   waited, totalWaited, queue, closed, delivered, event, recvLog,
                   result, out, enteredLoop>>
    /\ UNCHANGED <<tvars, svars, hvars>>

\* client.rs:85-90  any other event is ignored
Ignore ==
    /\ dpc = "match"
    /\ ~Matches(event)
    /\ dpc' = "check"
    /\ UNCHANGED <<daemon, browsing, now, overhead, timeout, deadline, remaining,
                   waited, totalWaited, queue, closed, delivered, event, recvLog,
                   result, out, enteredLoop>>
    /\ UNCHANGED <<tvars, svars, hvars>>

(***************************************************************************)
(* The environment of the call: the clock and the mDNS daemon thread.      *)
(***************************************************************************)
Waiting == dpc = "wait" /\ queue = <<>> /\ ~closed /\ waited < WaitBound

\* a tick of the clock while the call is suspended in the wait of client.rs:49
TickWait ==
    /\ Waiting
    /\ now' = now + 1
    /\ waited' = waited + 1
    /\ UNCHANGED <<dpc, daemon, browsing, overhead, timeout, deadline, remaining,
                   totalWaited, queue, closed, delivered, event, recvLog,
                   result, out, enteredLoop>>
    /\ UNCHANGED <<tvars, svars, hvars>>

\* a tick of the clock while the call is running or ready to run
TickOverhead ==
    /\ dpc \in {"deadline", "check", "wait", "match"}
    /\ ~Waiting
    /\ overhead < MaxOverhead
    /\ now' = now + 1
    /\ overhead' = overhead + 1
    /\ UNCHANGED <<dpc, daemon, browsing, timeout, deadline, remaining, waited,
                   totalWaited, queue, closed, delivered, event, recvLog,
                   result, out, enteredLoop>>
    /\ UNCHANGED <<tvars, svars, hvars>>

\* the daemon sends an event to the subscriber
Deliver ==
    /\ browsing
    /\ ~closed
    /\ delivered < MaxEvents
    /\ \E ev \in Events : queue' = Append(queue, ev)
    /\ delivered' = delivered + 1
    /\ UNCHANGED <<dpc, daemon, browsing, now, overhead, timeout, deadline,
                   remaining, waited, totalWaited, closed, event, recvLog,
                   result, out, enteredLoop>>
    /\ UNCHANGED <<tvars, svars, hvars>>

\* the daemon thread ends and drops its sender
ChannelClose ==
    /\ browsing
    /\ ~closed
    /\ closed' = TRUE
    /\ UNCHANGED <<dpc, daemon, browsing, now, overhead, timeout, deadline,
                   remaining, waited, totalWaited, queue, delivered, event,
                   recvLog, result, out, enteredLoop>>
    /\ UNCHANGED <<tvars, svars, hvars>>

(***************************************************************************)
(* Claims about discover_vrchat_oscquery.                                  *)
(***************************************************************************)
InLoop == enteredLoop /\ dpc \in {"check", "wait", "match"}

Returned == dpc = "done"

NoMatchIn(log) == \A i \in 1..Len(log) : ~Matches(log[i])

\* C1: once the call has entered the event loop, the daemon runs until the
\* call returns and is shut down when it has returned, whatever the outcome
\* (success, DiscoveryTimeout, DiscoveryChannelClosed).
C1_ShutDownOnLoopReturn ==
    enteredLoop =>
        /\ InLoop => (daemon = "running" /\ browsing)
        /\ Returned =>
              /\ daemon = "shutdown"
              /\ ~browsing
              /\ result \in {"Ok", "DiscoveryTimeout", "DiscoveryChannelClosed"}

C1_Witness ==
    /\ Returned
    /\ enteredLoop
    /\ result = "DiscoveryChannelClosed"
    /\ recvLog # <<>>
    /\ daemon = "shutdown"

\* C2: every return that follows the creation of the daemon finds the
\* daemon shut down, the error return of a failed browse included.
C2_ShutDownOnEveryExit ==
    (Returned /\ daemon # "none") => daemon = "shutdown"

\* C3: each wait lasts at most the remaining time computed from the deadline
\* fixed at the start, and the waits of one call add up to at most the
\* caller's timeout.
C3_WaitsWithinTimeout ==
    enteredLoop =>
        /\ remaining <= timeout
        /\ dpc = "wait" => (remaining > 0 /\ waited <= remaining)
        /\ totalWaited + waited <= timeout

C3_Witness ==
    /\ Returned
    /\ result = "DiscoveryTimeout"
    /\ Len(recvLog) >= 1
    /\ totalWaited > 0
    /\ waited > 0
    /\ totalWaited + waited = timeout

\* C4: the outcome follows the event stream: success exactly when the last
\* event received matches; DiscoveryTimeout only at or after the deadline,
\* with no match received and not from a wait that found the channel closed;
\* DiscoveryChannelClosed only from a wait entered before the deadline that
\* found the channel closed and empty, with no match received; a timeout of
\* zero gives DiscoveryTimeout without any wait.
C4_OutcomeClassified ==
    (enteredLoop /\ Returned) =>
        /\ result \in {"Ok", "DiscoveryTimeout", "DiscoveryChannelClosed"}
        /\ result = "Ok" <=>
              (recvLog # <<>> /\ Matches(recvLog[Len(recvLog)]))
        /\ NoMatchIn(SubSeq(recvLog, 1, Len(recvLog) - 1))
        /\ result = "DiscoveryTimeout" =>
              /\ now >= deadline
              /\ \/ remaining <= 0
                 \/ (waited = remaining /\ queue = <<>> /\ ~closed)
        /\ result = "DiscoveryChannelClosed" =>
              /\ closed
              /\ queue = <<>>
              /\ remaining > 0
              /\ waited <= remaining
        /\ timeout = 0 => (result = "DiscoveryTimeout" /\ recvLog = <<>>)

C4_Witness ==
    /\ Returned
    /\ result = "DiscoveryTimeout"
    /\ Len(recvLog) = MaxEvents
    /\ NoMatchIn(recvLog)
    /\ waited = remaining
    /\ remaining > 0

LastReceived == recvLog[Len(recvLog)]

\* C11: on success the value returned carries the full name, the host name
\* and the port of the matching event; its IPv4 address is the one the
\* iteration of that event's IPv4 addresses yields first, hence one of them,
\* or 127.0.0.1 when the event has none; a match without an IPv4 address
\* is never a failure.
C11_ServiceOfMatchingEvent ==
    /\ (Returned /\ result = "Ok") =>
          /\ recvLog # <<>>
          /\ event = LastReceived
          /\ out.instance_name = event.fullname
          /\ out.host_name = event.host
          /\ out.port = event.port
          /\ event.addrs = {} => out.addr_v4 = LOCALHOST
          /\ event.addrs # {} => out.addr_v4 \in event.addrs
    /\ (Returned /\ enteredLoop /\ recvLog # <<>>
           /\ LastReceived.kind = "ServiceResolved"
           /\ LastReceived.ty_domain = OSCJSON_TCP
           /\ StartsWith(LastReceived.fullname, VRCHAT_PREFIX)
           /\ LastReceived.addrs = {}) =>
          (result = "Ok" /\ out.addr_v4 = LOCALHOST)

C11_Witness ==
    /\ Returned
    /\ result = "Ok"
    /\ Len(recvLog) = 2
    /\ event.addrs = {}
    /\ out.addr_v4 = LOCALHOST
    /\ out.instance_name = NameVRChat

\* a resolved event of type _oscjson._tcp.local. whose full name begins,
\* character by character, with VRChat-Client-
IsVRChatOscJson(ev) ==
    /\ ev.kind = "ServiceResolved"
    /\ ev.ty_domain = "_oscjson._tcp.local."
    /\ Len(ev.fullname) >= Len(VRCHAT_PREFIX)
    /\ \A i \in 1..Len(VRCHAT_PREFIX) : ev.fullname[i] = VRCHAT_PREFIX[i]

\* the events sent so far, in stream order
Stream == recvLog \o queue

\* C12: the call succeeds only for a resolved event of type
\* _oscjson._tcp.local. whose full name starts with VRChat-Client-, and that
\* event is the first such event of the stream (events are received in
\* stream order and no earlier one matches); any other event is ignored: it
\* ends neither the loop nor the subscription, the deadline stays where it
\* was set, and the loop goes back to its deadline check to wait for the
\* next event.
C12_FirstMatchingEventOnly ==
    /\ [](result = "Ok" =>
            /\ recvLog # <<>>
            /\ IsVRChatOscJson(LastReceived)
            /\ out.instance_name = LastReceived.fullname)
    /\ [](\A i \in 1..(Len(recvLog) - 1) : ~IsVRChatOscJson(recvLog[i]))
    /\ [][ /\ Len(Stream') >= Len(Stream)
           /\ SubSeq(Stream', 1, Len(Stream)) = Stream
           /\ enteredLoop => deadline' = deadline
           /\ (dpc = "match" /\ ~IsVRChatOscJson(event) /\ dpc' # dpc) =>
                 /\ dpc' = "check"
                 /\ daemon' = "running"
                 /\ browsing'
                 /\ result' = "none" ]_vars

C12_Witness ==
    /\ Returned
    /\ result = "Ok"
    /\ Len(recvLog) = 2
    /\ recvLog[1].kind = "ServiceResolved"
    /\ recvLog[1].ty_domain = OSCJSON_TCP
    /\ ~IsVRChatOscJson(recvLog[1])
    /\ IsVRChatOscJson(recvLog[2])
    /\ daemon = "shutdown"

Slash == "/"

PathChars == {Slash, "a"}

RECURSIVE StringsUpTo(_)
StringsUpTo(n) ==
    IF n = 0 THEN {<<>>}
    ELSE LET shorter == StringsUpTo(n - 1)
         IN  shorter \cup { Append(w, c) : w \in {x \in shorter : Len(x) = n - 1},
                                             c \in PathChars }

\* longer paths: "/a/a", "/a/aa", "/a/a/", "/a//a", "/a/a/a"
LongPaths ==
    { <<Slash, "a", Slash, "a">>,
      <<Slash, "a", Slash, "a", "a">>,
      <<Slash, "a", Slash, "a", Slash>>,
      <<Slash, "a", Slash, Slash, "a">>,
      <<Slash, "a", Slash, "a", Slash, "a">> }

\* the path arguments of the calls: every short string, and the longer ones
Paths == StringsUpTo(MaxPathLen) \cup LongPaths

\* Option<T>
None == <<>>
Some(x) == <<x>>

\* str::trim_matches('/')
RECURSIVE TrimStart(_)
TrimStart(s) ==
    IF s # <<>> /\ Head(s) = Slash THEN TrimStart(Tail(s)) ELSE s

RECURSIVE TrimEnd(_)
TrimEnd(s) ==
    IF s # <<>> /\ s[Len(s)] = Slash THEN TrimEnd(SubSeq(s, 1, Len(s) - 1)) ELSE s

TrimMatches(s) == TrimEnd(TrimStart(s))

\* str::split('/'): the pieces between the slashes, empty ones included; the
\* empty string gives one empty piece
RECURSIVE SplitFrom(_, _)
SplitFrom(s, piece) ==
    IF s = <<>> THEN <<piece>>
    ELSE IF Head(s) = Slash THEN <<piece>> \o SplitFrom(Tail(s), <<>>)
    ELSE SplitFrom(Tail(s), Append(piece, Head(s)))

Split(s) == SplitFrom(s, <<>>)

\* str::rfind('/'): the 0-based index of the last slash, as an Option
RFind(s) ==
    LET idx == {i \in 1..Len(s) : s[i] = Slash}
    IN  IF idx = {} THEN None
        ELSE Some((CHOOSE i \in idx : \A j \in idx : j <= i) - 1)

(***************************************************************************)
(* node.rs:5-52  OscNode.  A tree is a function from the chains of keys    *)
(* that lead from the root to a node (the root is the empty chain) to the  *)
(* fields of that node; the contents of a node are the chains one key      *)
(* longer.                                                                 *)
(***************************************************************************)
\* node.rs:34-42
new_container(full_path) ==
    [full_path |-> full_path, access |-> Some("None"), typetag |-> None,
     value |-> None]

\* node.rs:44-52
new_method(full_path, access, typetag) ==
    [full_path |-> full_path, access |-> Some(access), typetag |-> Some(typetag),
     value |-> None]

\* server.rs:60  the root of a new builder
RootTree == [k \in {<<>>} |-> new_container(<<Slash>>)]

IsPrefix(p, k) == Len(p) <= Len(k) /\ SubSeq(k, 1, Len(p)) = p

\* the node at chain k and everything below it
Subtree(t, k) == {d \in DOMAIN t : IsPrefix(k, d)}

\* an insertion that overwrites the entry already there
OrInsertOverwrite(t, k, node) ==
    [d \in (DOMAIN t \ Subtree(t, k)) \cup {k} |-> IF d = k THEN node ELSE t[d]]

\* contents.entry(key).or_insert_with(|| node), node.rs:67-70
OrInsert(t, k, node) ==
    IF k \in DOMAIN t THEN t
    ELSE [d \in DOMAIN t \cup {k} |-> IF d = k THEN node ELSE t[d]]

\* an insertion that keeps what hung below the old entry
InsertKeepsChildren(t, k, node) ==
    [d \in DOMAIN t \cup {k} |-> IF d = k THEN node ELSE t[d]]

\* contents.insert(key, node), node.rs:83-86: the old entry goes with all
\* that hangs below it
Insert(t, k, node) ==
    [d \in (DOMAIN t \ Subtree(t, k)) \cup {k} |-> IF d = k THEN node ELSE t[d]]

\* node.rs:62-65  base after the first i parts
RECURSIVE Base(_, _)
Base(parts, i) ==
    IF i = 0 THEN <<>> ELSE Base(parts, i - 1) \o <<Slash>> \o parts[i]

\* the loop that stops at the first node it had to create
RECURSIVE WalkOneCreation(_, _, _)
WalkOneCreation(t, parts, i) ==
    IF i > Len(parts) THEN t
    ELSE IF SubSeq(parts, 1, i) \in DOMAIN t
         THEN WalkOneCreation(t, parts, i + 1)
         ELSE OrInsert(t, SubSeq(parts, 1, i), new_container(Base(parts, i)))

\* node.rs:63-71  the loop over the parts, from part i on
RECURSIVE Walk(_, _, _)
Walk(t, parts, i) ==
    IF i > Len(parts) THEN t
    ELSE Walk(OrInsert(t, SubSeq(parts, 1, i), new_container(Base(parts, i))),
              parts, i + 1)

\* node.rs:54-73  the tree after the call and the chain of the node returned
ensure_path(t, path) ==
    IF path = <<Slash>> THEN [tree |-> t, node |-> <<>>]
    ELSE LET parts == Split(TrimMatches(path))
         IN  [tree |-> Walk(t, parts, 1), node |-> parts]

\* node.rs:90-98
path_name(path) ==
    IF path = <<Slash>> THEN None
    ELSE LET parts == Split(TrimMatches(path))
         IN  Some(parts[Len(parts)])

\* node.rs:76-79
ParentPath(path) ==
    LET idx == RFind(path)
    IN  IF idx # None /\ idx[1] > 0 THEN SubSeq(path, 1, idx[1]) ELSE <<Slash>>

\* node.rs:80
LeafName(path) ==
    IF path_name(path) # None THEN path_name(path)[1] ELSE TrimMatches(path)

\* node.rs:75-87
add_method(t, path, access, typetag) ==
    LET parent == ensure_path(t, ParentPath(path))
        key    == Append(parent.node, LeafName(path))
    IN  [tree |-> Insert(parent.tree, key, new_method(path, access, typetag)),
         node |-> key]

\* the access and type tag arguments of add_method
MethodArgs == { <<"ReadWrite", <<"f">> >>, <<"Read", <<"i">> >> }

NoCall == [op |-> "none", path |-> <<>>, access |-> "None", typetag |-> <<>>,
           node |-> <<>>]

EnsurePathCall ==
    /\ ncalls < MaxCalls
    /\ \E path \in Paths :
         LET r == ensure_path(tree, path)
         IN  /\ tree' = r.tree
             /\ lastCall' = [op |-> "ensure_path", path |-> path,
                             access |-> "None", typetag |-> <<>>, node |-> r.node]
    /\ prevTree' = tree
    /\ ncalls' = ncalls + 1
    /\ UNCHANGED <<dvars, svars, hvars>>

AddMethodCall ==
    /\ ncalls < MaxCalls
    /\ \E path \in Paths, args \in MethodArgs :
         LET r == add_method(tree, path, args[1], args[2])
         IN  /\ tree' = r.tree
             /\ lastCall' = [op |-> "add_method", path |-> path,
                             access |-> args[1], typetag |-> args[2],
                             node |-> r.node]
    /\ prevTree' = tree
    /\ ncalls' = ncalls + 1
    /\ UNCHANGED <<dvars, svars, hvars>>

TreeIdle ==
    /\ tree = RootTree
    /\ prevTree = RootTree
    /\ lastCall = NoCall
    /\ ncalls = 0

(***************************************************************************)
(* Claims about the namespace tree.                                        *)
(***************************************************************************)
\* the root's path followed by the keys of chain k
ChainPath(k) == IF k = <<>> THEN <<Slash>> ELSE Base(k, Len(k))

\* the chain of keys a path names (node.rs:59)
Segments(path) ==
    IF path = <<Slash>> THEN <<>> ELSE Split(TrimMatches(path))

IsContainer(node) ==
    /\ node.typetag = None
    /\ node.access = Some("None")

ProperAncestors(k) == { SubSeq(k, 1, i) : i \in 1..(Len(k) - 1) }

\* C5: after any sequence of ensure_path and add_method calls on the root
\* container, the full_path of every node is the root's path followed by the
\* keys that lead to the node.
C5_FullPathOfEveryNode ==
    \A k \in DOMAIN tree : tree[k].full_path = ChainPath(k)

\* C6: a second ensure_path call with the same path leaves the tree as the
\* first call left it and designates the same node.
C6_EnsurePathIdempotent ==
    lastCall.op = "ensure_path" =>
        ensure_path(tree, lastCall.path) = [tree |-> tree, node |-> lastCall.node]

C6_Witness ==
    /\ lastCall.op = "ensure_path"
    /\ prevTree # RootTree
    /\ Len(lastCall.node) >= 2
    /\ Cardinality(DOMAIN tree) >= Cardinality(DOMAIN prevTree) + 2
    /\ ensure_path(tree, lastCall.path).tree = tree

\* an absolute path with at least one segment and no trailing slash
AbsoluteNoTrailingSlash(path) ==
    /\ Len(path) >= 2
    /\ path[1] = Slash
    /\ path[Len(path)] # Slash

\* C7: add_method with an absolute path P without trailing slash, on a tree
\* where each proper ancestor of P is absent or a container, leaves a node
\* at P with full_path P and the given access and type tag, and every
\* proper ancestor of P present as a container.
C7_AddMethodPlacesNode ==
    LET P == lastCall.path
        k == Segments(P)
    IN  ( /\ lastCall.op = "add_method"
          /\ AbsoluteNoTrailingSlash(P)
          /\ \A anc \in ProperAncestors(k) :
                anc \in DOMAIN prevTree => IsContainer(prevTree[anc]) )
        =>
        ( /\ k \in DOMAIN tree
          /\ tree[k].full_path = P
          /\ tree[k].access = Some(lastCall.access)
          /\ tree[k].typetag = Some(lastCall.typetag)
          /\ \A anc \in ProperAncestors(k) :
                anc \in DOMAIN tree /\ IsContainer(tree[anc]) )

\* the chains of keys of the nodes on the way to chain k, k included
Prefixes(k) == { SubSeq(k, 1, i) : i \in 1..Len(k) }

\* the chains of the children of the node at chain k
Children(t, k) == { d \in DOMAIN t : Len(d) = Len(k) + 1 /\ IsPrefix(k, d) }

\* C14: ensure_path with path P adds exactly the nodes on the way to P that
\* were absent, each a container (access None, no type tag, no value) named
\* by its prefix of P and holding only the next node on the way to P; every
\* node present before keeps its fields; ensure_path with "/" leaves the
\* tree as it was.
C14_EnsurePathFrame ==
    lastCall.op = "ensure_path" =>
        LET k     == Segments(lastCall.path)
            added == DOMAIN tree \ DOMAIN prevTree
        IN  /\ lastCall.node = k
            /\ DOMAIN tree = DOMAIN prevTree \cup Prefixes(k)
            /\ \A d \in DOMAIN prevTree : tree[d] = prevTree[d]
            /\ \A d \in added :
                  /\ tree[d].access = Some("None")
                  /\ tree[d].typetag = None
                  /\ tree[d].value = None
                  /\ tree[d].full_path = ChainPath(d)
                  /\ Children(tree, d) =
                        IF d = k THEN {} ELSE {SubSeq(k, 1, Len(d) + 1)}
            /\ lastCall.path = <<Slash>> => tree = prevTree

C14_Witness ==
    /\ lastCall.op = "ensure_path"
    /\ Len(lastCall.node) = 3
    /\ SubSeq(lastCall.node, 1, 1) \in DOMAIN prevTree
    /\ prevTree[SubSeq(lastCall.node, 1, 1)].typetag = None
    /\ Cardinality(DOMAIN tree \ DOMAIN prevTree) = 2
    /\ \E d \in DOMAIN prevTree : prevTree[d].typetag # None

\* the 1-based position of the final slash of a path, 0 when it has none
FinalSlash(path) ==
    IF \E i \in 1..Len(path) : path[i] = Slash
    THEN CHOOSE i \in 1..Len(path) :
            path[i] = Slash /\ \A j \in (i + 1)..Len(path) : path[j] # Slash
    ELSE 0

\* the substring after the final slash
LeafAfterFinalSlash(path) == SubSeq(path, FinalSlash(path) + 1, Len(path))

\* everything before the final slash, or "/" when that slash is the first
\* character or there is none
ParentBeforeFinalSlash(path) ==
    IF FinalSlash(path) <= 1 THEN <<Slash>>
    ELSE SubSeq(path, 1, FinalSlash(path) - 1)

\* C15: for every path string, add_method inserts its method node under the
\* leaf name, the substring after the final slash, in the node ensure_path
\* returns for the parent path, everything before that slash (or "/" when
\* the slash is first or absent).
C15_AddMethodSplitsAtFinalSlash ==
    lastCall.op = "add_method" =>
        LET P      == lastCall.path
            parent == ensure_path(prevTree, ParentBeforeFinalSlash(P))
            key    == Append(parent.node, LeafAfterFinalSlash(P))
        IN  /\ lastCall.node = key
            /\ tree = Insert(parent.tree, key,
                             new_method(P, lastCall.access, lastCall.typetag))

\* the same statement for the paths that do not end with a slash after a
\* segment
C15_HoldsWithoutTrailingSlash ==
    (lastCall.op = "add_method" /\ TrimEnd(lastCall.path) \in {lastCall.path, <<>>})
        => C15_AddMethodSplitsAtFinalSlash

\* C16: after any sequence of ensure_path and add_method calls, every
\* method node (a node with a type tag) has no children, also when a call's
\* path passes through an existing method node.
C16_MethodNodesAreLeaves ==
    \A k \in DOMAIN tree :
        tree[k].typetag # None => Children(tree, k) = {}

\* C17: add_method where a node exists replaces that entry by a fresh
\* method node and merges nothing: what hung below the old entry is gone,
\* the call designates the new node, and every node outside that subtree is
\* as it was.
C17_AddMethodOverwrites ==
    (lastCall.op = "add_method" /\ lastCall.node \in DOMAIN prevTree) =>
        LET k   == lastCall.node
            old == Subtree(prevTree, k)
        IN  /\ k \in DOMAIN tree
            /\ tree[k] = new_method(lastCall.path, lastCall.access,
                                    lastCall.typetag)
            /\ Subtree(tree, k) = {k}
            /\ DOMAIN tree = (DOMAIN prevTree \ old) \cup {k}
            /\ \A d \in DOMAIN prevTree \ old : tree[d] = prevTree[d]

C17_Witness ==
    /\ lastCall.op = "add_method"
    /\ lastCall.node \in DOMAIN prevTree
    /\ prevTree[lastCall.node].typetag = None
    /\ Children(prevTree, lastCall.node) # {}
    /\ Cardinality(DOMAIN tree) < Cardinality(DOMAIN prevTree)

(***************************************************************************)
(* server.rs:53-88  the builder.                                           *)
(***************************************************************************)
\* server.rs:80  "/avatar"
AvatarPath == <<Slash, "a", "v", "a", "t", "a", "r">>

\* server.rs:86  "/tracking/vrsystem"
TrackingPath == <<Slash, "t", "r", "a", "c", "k", "i", "n", "g",
                  Slash, "v", "r", "s", "y", "s", "t", "e", "m">>

NoShared == [root |-> <<>>, host_info |-> <<>>]

NoConn == [pc |-> "idle", query |-> None, response |-> <<>>]

\* server.rs:78-88  with_vrchat_avatar_receiver, with_vrchat_tracking_receiver
WithReceiver ==
    /\ spc = "builder"
    /\ \E path \in {AvatarPath, TrackingPath} :
         tree' = ensure_path(tree, path).tree
    /\ UNCHANGED <<prevTree, lastCall, ncalls, dvars, svars, hvars>>

(***************************************************************************)
(* server.rs:90-187  build_and_run.                                        *)
(***************************************************************************)
\* a `?` that returns the error of a failed step
Fail(step, err) ==
    /\ spc' = "returned"
    /\ sresult' = err
    /\ failed' = step
    /\ steps' = Append(steps, step)

Done(step, next) ==
    /\ spc' = next
    /\ steps' = Append(steps, step)
    /\ UNCHANGED <<sresult, failed>>

\* server.rs:90  the caller ends the configuration and calls build_and_run
BuildAndRun ==
    /\ spc = "builder"
    /\ spc' = "bind"
    /\ UNCHANGED <<listener, acceptLoop, sdaemon, registered, sresult, handle,
                   failed, steps, sleepUntil, shared>>
    /\ UNCHANGED <<dvars, tvars, hvars>>

\* server.rs:92-93  TcpListener::bind(..).await?
Bind ==
    /\ spc = "bind"
    /\ \E ok \in BOOLEAN :
         IF ok
         THEN /\ listener' = "bound"
              /\ Done("bind", "local_addr")
         ELSE /\ Fail("bind", "ListenError")
              /\ UNCHANGED listener
    /\ UNCHANGED <<acceptLoop, sdaemon, registered, handle, sleepUntil, shared>>
    /\ UNCHANGED <<dvars, tvars, hvars>>

\* server.rs:94-95  http_listener.local_addr()?
LocalAddr ==
    /\ spc = "local_addr"
    /\ \E ok \in BOOLEAN :
         IF ok
         THEN /\ Done("local_addr", "spawn")
              /\ UNCHANGED listener
         ELSE /\ Fail("local_addr", "ListenError")
              /\ listener' = "closed"
    /\ UNCHANGED <<acceptLoop, sdaemon, registered, handle, sleepUntil, shared>>
    /\ UNCHANGED <<dvars, tvars, hvars>>

\* server.rs:102-108
HostInfo ==
    [name |-> AppName, osc_ip |-> LOCALHOST, osc_port |-> OscPort,
     osc_transport |-> "UDP", extensions |-> <<>>]

\* server.rs:102-137  the shared state is built and the accept loop spawned
SpawnAcceptLoop ==
    /\ spc = "spawn"
    /\ shared' = [root |-> tree, host_info |-> HostInfo]
    /\ acceptLoop' = "running"
    /\ Done("spawn", "daemon")
    /\ UNCHANGED <<listener, sdaemon, registered, handle, sleepUntil>>
    /\ UNCHANGED <<dvars, tvars, hvars>>

\* server.rs:139  ServiceDaemon::new()?
ServerDaemonNew ==
    /\ spc = "daemon"
    /\ \E ok \in BOOLEAN :
         IF ok
         THEN /\ sdaemon' = "running"
              /\ Done("daemon", "register_oscjson")
         ELSE /\ Fail("daemon", "MdnsError")
              /\ UNCHANGED sdaemon
    /\ UNCHANGED <<listener, acceptLoop, registered, handle, sleepUntil, shared>>
    /\ UNCHANGED <<dvars, tvars, hvars>>

\* server.rs:142-161  ServiceInfo::new(..)? and mdns.register(..)? for the
\* _oscjson._tcp.local. record
RegisterOscJson ==
    /\ spc = "register_oscjson"
    /\ \E ok \in BOOLEAN :
         IF ok
         THEN /\ registered' = registered \cup {OSCJSON_TCP}
              /\ Done("register_oscjson", "register_osc")
         ELSE /\ Fail("register_oscjson", "MdnsError")
              /\ UNCHANGED registered
    /\ UNCHANGED <<listener, acceptLoop, sdaemon, handle, sleepUntil, shared>>
    /\ UNCHANGED <<dvars, tvars, hvars>>

\* the second registration with its error dropped instead of returned
RegisterOscErrorIgnored ==
    /\ spc = "register_osc"
    /\ \E ok \in BOOLEAN :
         IF ok
         THEN /\ registered' = registered \cup {OSC_UDP}
              /\ Done("register_osc", "sleep")
         ELSE /\ spc' = "sleep"
              /\ failed' = "register_osc"
              /\ steps' = Append(steps, "register_osc")
              /\ UNCHANGED <<registered, sresult>>
    /\ sleepUntil' = now + GraceDelay
    /\ UNCHANGED <<listener, acceptLoop, sdaemon, handle, shared>>
    /\ UNCHANGED <<dvars, tvars, hvars>>

\* server.rs:164-178  the same for the _osc._udp.local. record; on success
\* the sleep of server.rs:182 starts
RegisterOsc ==
    /\ spc = "register_osc"
    /\ \E ok \in BOOLEAN :
         IF ok
         THEN /\ registered' = registered \cup {OSC_UDP}
              /\ Done("register_osc", "sleep")
              /\ sleepUntil' = now + GraceDelay
         ELSE /\ Fail("register_osc", "MdnsError")
              /\ UNCHANGED <<registered, sleepUntil>>
    /\ UNCHANGED <<listener, acceptLoop, sdaemon, handle, shared>>
    /\ UNCHANGED <<dvars, tvars, hvars>>

\* a tick of the clock during the sleep of server.rs:182
TickSleep ==
    /\ spc = "sleep"
    /\ now < sleepUntil
    /\ now' = now + 1
    /\ UNCHANGED <<dpc, daemon, browsing, overhead, timeout, deadline, remaining,
                   waited, totalWaited, queue, closed, delivered, event,
                   recvLog, result, out, enteredLoop>>
    /\ UNCHANGED <<tvars, svars, hvars>>

\* the discovery called without the end of the sleep being awaited
CallDiscoverNoDelay ==
    /\ spc = "sleep"
    /\ dpc = "idle"
    /\ dpc' = "new"
    /\ timeout' = SmokeTimeout
    /\ Done("sleep", "discover")
    /\ UNCHANGED <<listener, acceptLoop, sdaemon, registered, handle, sleepUntil,
                   shared>>
    /\ UNCHANGED <<daemon, browsing, now, overhead, deadline, remaining, waited,
                   totalWaited, queue, closed, delivered, event, recvLog,
                   result, out, enteredLoop>>
    /\ UNCHANGED <<tvars, hvars>>

\* server.rs:182-184  the sleep is over and the discovery is called
CallDiscover ==
    /\ spc = "sleep"
    /\ now >= sleepUntil
    /\ dpc = "idle"
    /\ dpc' = "new"
    /\ timeout' = SmokeTimeout
    /\ Done("sleep", "discover")
    /\ UNCHANGED <<listener, acceptLoop, sdaemon, registered, handle, sleepUntil,
                   shared>>
    /\ UNCHANGED <<daemon, browsing, now, overhead, deadline, remaining, waited,
                   totalWaited, queue, closed, delivered, event, recvLog,
                   result, out, enteredLoop>>
    /\ UNCHANGED <<tvars, hvars>>

\* the discovery's error returned to the caller as a value
DiscoverReturnedError ==
    /\ spc = "discover"
    /\ dpc = "done"
    /\ steps' = Append(steps, "discover")
    /\ spc' = "returned"
    /\ IF result = "Ok"
       THEN /\ sresult' = "Ok"
            /\ handle' = "RunningServer"
       ELSE /\ sresult' = result
            /\ UNCHANGED handle
    /\ UNCHANGED <<listener, acceptLoop, sdaemon, registered, failed, sleepUntil,
                   shared>>
    /\ UNCHANGED <<dvars, tvars, hvars>>

\* server.rs:184-186  .unwrap() of the discovery's result, then
\* Ok(RunningServer { _mdns: mdns })
DiscoverReturned ==
    /\ spc = "discover"
    /\ dpc = "done"
    /\ steps' = Append(steps, "discover")
    /\ IF result = "Ok"
       THEN /\ spc' = "returned"
            /\ sresult' = "Ok"
            /\ handle' = "RunningServer"
       ELSE /\ spc' = "panicked"
            /\ sresult' = "panic"
            /\ UNCHANGED handle
    /\ UNCHANGED <<listener, acceptLoop, sdaemon, registered, failed, sleepUntil,
                   shared>>
    /\ UNCHANGED <<dvars, tvars, hvars>>

(***************************************************************************)
(* server.rs:115-137, :190-214  the accept loop and handle_request.        *)
(***************************************************************************)
\* server.rs:197  the directive
HOST_INFO == <<"H", "O", "S", "T", "_", "I", "N", "F", "O">>

\* the query strings of the requests; None is a URI without query
Queries ==
    { None,
      Some(<<>>),
      Some(HOST_INFO),
      Some(<<"h", "o", "s", "t", "_", "i", "n", "f", "o">>),
      Some(<<"H", "o", "s", "t", "_", "I", "n", "f", "o">>),
      Some(<<"H", "O", "S", "T", "_", "I", "N", "F">>),
      Some(<<"H", "O", "S", "T", "_", "I", "N", "F", "O", "X">>),
      Some(<<"H", "O", "S", "T", "-", "I", "N", "F", "O">>),
      Some(<<"V", "A", "L", "U", "E">>) }

UpperCase == <<"A","B","C","D","E","F","G","H","I","J","K","L","M",
               "N","O","P","Q","R","S","T","U","V","W","X","Y","Z">>

LowerCase == <<"a","b","c","d","e","f","g","h","i","j","k","l","m",
               "n","o","p","q","r","s","t","u","v","w","x","y","z">>

\* u8::to_ascii_lowercase
ToAsciiLower(c) ==
    IF \E i \in 1..26 : UpperCase[i] = c
    THEN LowerCase[CHOOSE i \in 1..26 : UpperCase[i] = c]
    ELSE c

\* the comparison made with ==, case and all
EqExactCase(a, b) == a = b

\* str::eq_ignore_ascii_case
EqIgnoreAsciiCase(a, b) ==
    /\ Len(a) = Len(b)
    /\ \A i \in 1..Len(a) : ToAsciiLower(a[i]) = ToAsciiLower(b[i])

\* Option::unwrap_or
UnwrapOr(opt, default) == IF opt = None THEN default ELSE opt[1]

\* serde_json::to_string of a value
Json(kind, value) == [kind |-> kind, value |-> value]

\* server.rs:199-203, :209-213
Response(body) ==
    [status |-> StatusOK, content_type |-> "application/json", body |-> body]

\* server.rs:119-135  the loop accepts a connection and spawns its task
Accept ==
    /\ acceptLoop = "running"
    /\ \E i \in 1..MaxConns :
         /\ conns[i].pc = "idle"
         /\ \A j \in 1..(i - 1) : conns[j].pc # "idle"
         /\ conns' = [conns EXCEPT ![i].pc = "open"]
    /\ UNCHANGED <<readers, writers, dvars, tvars, svars>>

\* server.rs:130, :194-195  a request arrives and handle_request reads its
\* query string
Request ==
    /\ \E i \in 1..MaxConns, q \in Queries :
         /\ conns[i].pc = "open"
         /\ conns' = [conns EXCEPT ![i] =
                         [pc |-> "handling", query |-> q, response |-> <<>>]]
    /\ UNCHANGED <<readers, writers, dvars, tvars, svars>>

\* server.rs:197-204  the HOST_INFO answer
AnswerHostInfo ==
    /\ \E i \in 1..MaxConns :
         /\ conns[i].pc = "handling"
         /\ EqIgnoreAsciiCase(UnwrapOr(conns[i].query, <<>>), HOST_INFO)
         /\ conns' = [conns EXCEPT
                         ![i].pc = "open",
                         ![i].response =
                             Response(Json("HostInfo", shared.host_info))]
    /\ UNCHANGED <<readers, writers, dvars, tvars, svars>>

\* the handler taking the lock with write() instead of read()
WriteLock ==
    /\ \E i \in 1..MaxConns :
         /\ conns[i].pc = "handling"
         /\ ~EqIgnoreAsciiCase(UnwrapOr(conns[i].query, <<>>), HOST_INFO)
         /\ conns' = [conns EXCEPT ![i].pc = "reading"]
    /\ readers = 0
    /\ writers = 0
    /\ writers' = writers + 1
    /\ UNCHANGED <<readers, dvars, tvars, svars>>

\* server.rs:206  state.root.read().unwrap(): a read guard is granted
\* while no write guard is held
ReadLock ==
    /\ \E i \in 1..MaxConns :
         /\ conns[i].pc = "handling"
         /\ ~EqIgnoreAsciiCase(UnwrapOr(conns[i].query, <<>>), HOST_INFO)
         /\ conns' = [conns EXCEPT ![i].pc = "reading"]
    /\ writers = 0
    /\ readers' = readers + 1
    /\ UNCHANGED <<writers, dvars, tvars, svars>>

\* server.rs:207-214  the tree answer; the read guard is dropped on return
AnswerTree ==
    /\ \E i \in 1..MaxConns :
         /\ conns[i].pc = "reading"
         /\ conns' = [conns EXCEPT
                         ![i].pc = "open",
                         ![i].response = Response(Json("OscNode", shared.root))]
    /\ readers' = readers - 1
    /\ UNCHANGED <<writers, dvars, tvars, svars>>

(***************************************************************************)
(* Claims about the server.                                                *)
(***************************************************************************)
\* u8::to_ascii_uppercase, for the statement of the directive's comparison
ToAsciiUpper(c) ==
    IF \E i \in 1..26 : LowerCase[i] = c
    THEN UpperCase[CHOOSE i \in 1..26 : LowerCase[i] = c]
    ELSE c

\* the query string is present and reads HOST_INFO once upper-cased
IsHostInfoQuery(q) ==
    /\ q # None
    /\ [i \in 1..Len(q[1]) |-> ToAsciiUpper(q[1][i])] = HOST_INFO

\* C8: every answer of handle_request has status 200; its body is the
\* HostInfo record exactly when the query string is HOST_INFO in any case,
\* and the tree otherwise (empty and absent query strings included).
C8_HandleRequestAnswers ==
    \A i \in 1..MaxConns :
        conns[i].response # <<>> =>
            /\ conns[i].response.status = 200
            /\ conns[i].response.body =
                  IF IsHostInfoQuery(conns[i].query)
                  THEN Json("HostInfo", HostInfo)
                  ELSE Json("OscNode", tree)

C8_Witness ==
    /\ tree # RootTree
    /\ \E i, j \in 1..MaxConns :
         /\ conns[i].query = Some(<<"h", "o", "s", "t", "_", "i", "n", "f", "o">>)
         /\ conns[i].response # <<>>
         /\ conns[i].response.body.kind = "HostInfo"
         /\ conns[j].query = None
         /\ conns[j].response # <<>>
         /\ conns[j].response.body = Json("OscNode", tree)

\* the steps of build_and_run in the order of the code
StartupSteps ==
    <<"bind", "local_addr", "spawn", "daemon", "register_oscjson",
      "register_osc", "sleep", "discover">>

\* C9: when the bind, the daemon creation or a registration fails,
\* build_and_run returns ListenError or MdnsError accordingly and no
\* RunningServer, and no later step is executed.
C9_StartupErrorReturned ==
    failed # "none" =>
        /\ spc = "returned"
        /\ sresult = IF failed \in {"bind", "local_addr"}
                     THEN "ListenError" ELSE "MdnsError"
        /\ handle = "none"
        /\ \E n \in 1..Len(StartupSteps) :
              /\ steps = SubSeq(StartupSteps, 1, n)
              /\ steps[n] = failed
        /\ dpc = "idle"
        /\ failed = "bind" => listener = "none"
        /\ failed \in {"bind", "local_addr"} =>
              (acceptLoop = "none" /\ shared = NoShared /\ sdaemon = "none")
        /\ failed = "daemon" => sdaemon = "none"
        /\ failed \in {"daemon", "register_oscjson"} => registered = {}
        /\ failed = "register_osc" => registered = {OSCJSON_TCP}

C9_Witness ==
    /\ failed = "register_osc"
    /\ spc = "returned"
    /\ sresult = "MdnsError"
    /\ registered = {OSCJSON_TCP}
    /\ handle = "none"

\* the records the daemon of build_and_run advertises
Advertised == IF sdaemon = "running" THEN registered ELSE {}

\* C10: when build_and_run has returned the error of the daemon creation
\* or of a registration, the accept loop it spawned no longer runs and no
\* record it registered is advertised.
C10_FailedStartupCleansUp ==
    (spc = "returned" /\ failed \in {"daemon", "register_oscjson", "register_osc"})
        => (acceptLoop # "running" /\ Advertised = {})

\* the handlers that hold a guard of the tree lock
Reading == { i \in 1..MaxConns : conns[i].pc = "reading" }

\* C18: whatever the number of connections served at once, a handler takes
\* the tree lock in read mode only and gives it back when it has answered;
\* no write guard is ever held, so the read guard a handler asks for is
\* granted whatever the other handlers do; from the spawning of the accept
\* loop on, the shared tree and HostInfo are the ones built before it and
\* never change, and every answer is made of them.
C18_ReadLockOnly ==
    /\ [](writers = 0)
    /\ [](readers = Cardinality(Reading))
    /\ [](\A i \in 1..MaxConns :
            (conns[i].pc = "handling" /\ ~IsHostInfoQuery(conns[i].query))
                => (writers = 0 /\ ENABLED ReadLock))
    /\ [](acceptLoop = "running" =>
            shared = [root |-> tree, host_info |-> HostInfo])
    /\ [][acceptLoop = "running" => (shared' = shared /\ tree' = tree)]_vars
    /\ [](\A i \in 1..MaxConns :
            conns[i].response # <<>> =>
                conns[i].response.body \in
                    { Json("HostInfo", shared.host_info),
                      Json("OscNode", shared.root) })

C18_Witness ==
    /\ readers = MaxConns
    /\ \A i \in 1..MaxConns : conns[i].pc = "reading"
    /\ acceptLoop = "running"
    /\ shared.root # RootTree

\* the discovery of server.rs:184 has been called
DiscoveryStarted == dpc # "idle"

\* C19: build_and_run executes its steps in the order bind, accept loop,
\* registration of _oscjson._tcp.local., registration of _osc._udp.local.,
\* a delay of one second, then the one discovery, called with a timeout of
\* five seconds; the discovery is not started before both records are
\* registered and the delay is over, and the RunningServer is returned only
\* when the discovery has returned.
C19_StartupOrder ==
    /\ [](\E n \in 0..Len(StartupSteps) : steps = SubSeq(StartupSteps, 1, n))
    /\ [](acceptLoop = "running" => listener = "bound")
    /\ [](registered # {} => (acceptLoop = "running" /\ sdaemon = "running"))
    /\ []("_osc._udp.local." \in registered => "_oscjson._tcp.local." \in registered)
    /\ [][("_osc._udp.local." \in registered') =>
             IF "_osc._udp.local." \in registered
             THEN sleepUntil' = sleepUntil
             ELSE sleepUntil' = now + 1]_vars
    /\ [](DiscoveryStarted =>
            /\ registered = {"_oscjson._tcp.local.", "_osc._udp.local."}
            /\ acceptLoop = "running"
            /\ now >= sleepUntil
            /\ timeout = 5)
    /\ [][DiscoveryStarted => (dpc' # "idle" /\ (dpc' = "new" => dpc = "new"))]_vars
    /\ [](handle = "RunningServer" =>
            (dpc = "done" /\ steps = StartupSteps /\ spc = "returned"))

C19_Witness ==
    /\ handle = "RunningServer"
    /\ spc = "returned"
    /\ steps = StartupSteps
    /\ registered = {OSCJSON_TCP, OSC_UDP}
    /\ now >= sleepUntil
    /\ result = "Ok"

\* build_and_run is over, by a return or by a panic
StartupOver == spc \in {"returned", "panicked"}

\* C20: a RunningServer is returned only when the discovery of start-up
\* found a matching peer; when that discovery ended with DiscoveryTimeout or
\* DiscoveryChannelClosed, build_and_run does not return: it panics, gives
\* no RunningServer and no value of its typed result, although the listener
\* is bound, the accept loop runs and both records are registered.
C20_SmokeTestFailureIsFatal ==
    /\ handle = "RunningServer" =>
          /\ result = "Ok"
          /\ recvLog # <<>>
          /\ IsVRChatOscJson(LastReceived)
    /\ (StartupOver /\ result \in {"DiscoveryTimeout", "DiscoveryChannelClosed"}) =>
          /\ spc = "panicked"
          /\ handle = "none"
          /\ sresult \notin {"Ok", "ListenError", "MdnsError",
                              "DiscoveryTimeout", "DiscoveryChannelClosed"}
          /\ failed = "none"
          /\ listener = "bound"
          /\ acceptLoop = "running"
          /\ registered = {"_oscjson._tcp.local.", "_osc._udp.local."}

C20_Witness ==
    /\ spc = "panicked"
    /\ result = "DiscoveryChannelClosed"
    /\ handle = "none"
    /\ acceptLoop = "running"
    /\ registered = {OSCJSON_TCP, OSC_UDP}
    /\ recvLog # <<>>

ServerIdle ==
    /\ listener = "none"
    /\ acceptLoop = "none"
    /\ sdaemon = "none"
    /\ registered = {}
    /\ sresult = "none"
    /\ handle = "none"
    /\ failed = "none"
    /\ steps = <<>>
    /\ sleepUntil = 0
    /\ shared = NoShared

DiscoveryStep ==
    \/ DaemonNew
    \/ Browse
    \/ SetDeadline
    \/ CheckDeadline
    \/ RecvEvent
    \/ RecvClosed
    \/ WaitElapsed
    \/ MatchFound
    \/ Ignore
    \/ TickWait
    \/ TickOverhead
    \/ Deliver
    \/ ChannelClose

HttpIdle ==
    /\ conns = [i \in 1..MaxConns |-> NoConn]
    /\ readers = 0
    /\ writers = 0

DiscoveryIdle ==
    /\ daemon = "none"
    /\ browsing = FALSE
    /\ now = 0
    /\ overhead = 0
    /\ deadline = 0
    /\ remaining = 0
    /\ waited = 0
    /\ totalWaited = 0
    /\ queue = <<>>
    /\ closed = FALSE
    /\ delivered = 0
    /\ event = NoEvent
    /\ recvLog = <<>>
    /\ result = "none"
    /\ out = NoService
    /\ enteredLoop = FALSE

\* a caller invokes discover_vrchat_oscquery(timeout)
Init ==
    /\ dpc = "new"
    /\ timeout \in 0..MaxTimeout
    /\ DiscoveryIdle
    /\ TreeIdle
    /\ spc = "idle"
    /\ ServerIdle
    /\ HttpIdle

Next == DiscoveryStep

Spec == Init /\ [][Next]_vars

\* The call is a task of the tokio runtime: a step that is ready is run
\* (client.rs:31-91 holds no lock and waits only at :49); the clock advances
\* while the call is suspended in that wait.
Fairness ==
    /\ WF_vars(DaemonNew)
    /\ WF_vars(Browse)
    /\ WF_vars(SetDeadline)
    /\ WF_vars(CheckDeadline)
    /\ WF_vars(RecvEvent)
    /\ WF_vars(RecvClosed)
    /\ WF_vars(WaitElapsed)
    /\ WF_vars(MatchFound)
    /\ WF_vars(Ignore)
    /\ WF_vars(TickWait)

SpecFair == Init /\ [][Next]_vars /\ Fairness

\* a builder's tree (server.rs:60) under a sequence of calls
InitTree ==
    /\ dpc = "idle"
    /\ timeout = 0
    /\ DiscoveryIdle
    /\ TreeIdle
    /\ spc = "idle"
    /\ ServerIdle
    /\ HttpIdle

NextTree ==
    \/ EnsurePathCall
    \/ AddMethodCall

SpecTree == InitTree /\ [][NextTree]_vars

\* OscQueryServerBuilder::new (server.rs:54-62), the configuration and
\* build_and_run, with the discovery it calls
InitServer ==
    /\ dpc = "idle"
    /\ timeout = 0
    /\ DiscoveryIdle
    /\ TreeIdle
    /\ spc = "builder"
    /\ ServerIdle
    /\ HttpIdle

NextServer ==
    \/ WithReceiver
    \/ BuildAndRun
    \/ Bind
    \/ LocalAddr
    \/ SpawnAcceptLoop
    \/ ServerDaemonNew
    \/ RegisterOscJson
    \/ RegisterOsc
    \/ TickSleep
    \/ CallDiscover
    \/ DiscoverReturned
    \/ DaemonNew
    \/ Browse
    \/ SetDeadline
    \/ CheckDeadline
    \/ RecvEvent
    \/ RecvClosed
    \/ WaitElapsed
    \/ MatchFound
    \/ Ignore
    \/ TickWait
    \/ TickOverhead
    \/ Deliver
    \/ ChannelClose

SpecServer == InitServer /\ [][NextServer]_vars

\* the builder and build_and_run up to the spawned accept loop, and the
\* connections that loop serves
NextHttp ==
    \/ WithReceiver
    \/ BuildAndRun
    \/ Bind
    \/ LocalAddr
    \/ SpawnAcceptLoop
    \/ Accept
    \/ Request
    \/ AnswerHostInfo
    \/ ReadLock
    \/ AnswerTree

SpecHttp == InitServer /\ [][NextHttp]_vars

====
